---- MODULE Spec2Model ----
(***************************************************************************)
(* Model of analise.py: one process that fetches the CDI rate from the BCB *)
(* API (extrair_taxa_cdi), appends num_registros jittered samples to       *)
(* ./taxa-cdi.csv, one per second (coletar_dados), and renders a line      *)
(* chart of the whole file to <nome>.png (gerar_grafico), sequenced by     *)
(* main.  The file system (the CSV file and the image) outlives a process; *)
(* everything else is reset when the script is started again.              *)
(*                                                                         *)
(* Floating point.  Python floats are IEEE doubles (53-bit significand).   *)
(* The model keeps the arithmetic and scales the width down: a value is an *)
(* integer number of units of 2^-MantBits, a representable value has a     *)
(* significand of MantBits bits (spacing never finer than one unit), and   *)
(* every operation rounds its exact result to the nearest representable    *)
(* value, ties to even.  random() yields k / 2^MantBits, 0 <= k < 2^Mant-  *)
(* Bits, exactly as CPython yields k / 2^53.                               *)
(***************************************************************************)
EXTENDS Integers, Sequences, FiniteSets

VARIABLES
    argv,           \* sys.argv of the running process: <<script, args...>>
    pc,             \* position of the process: "idle" when no process runs
    onde,           \* the position at which the last process ended
    retorno,        \* where coletar_dados returns to ("grafico" in main)
    status,         \* how the last process ended / "executando"
    csv_existe,     \* os.path.exists('./taxa-cdi.csv')
    csv,            \* the lines of ./taxa-cdi.csv
    png,            \* the image files, by base name
    now,            \* the wall clock, in seconds
    rng,            \* hidden state of the random module's generator
    resposta,       \* what requests.get produced in this process
    taxa_cdi,       \* main's taxa_cdi
    nome_grafico,   \* main's nome_grafico
    taxa_base,      \* coletar_dados' taxa_base
    num_registros,  \* coletar_dados' num_registros
    i,              \* completed iterations of coletar_dados' loop
    saida,          \* what the process printed
    eventos,        \* the calls and appends the process made, in order
    execucoes,      \* processes (or calls) started so far
    falhas,         \* injected I/O failures and interrupts so far
    historico,      \* num_registros of every completed coletar_dados call
    existeInicial,  \* whether the CSV file existed in the initial state
    csv0,           \* csv when the process started
    existe0,        \* csv_existe when the process started
    png0            \* png when the process started

vars == <<argv, pc, onde, retorno, status, csv_existe, csv, png, now, rng,
          resposta, taxa_cdi, nome_grafico, taxa_base, num_registros, i,
          saida, eventos, execucoes, falhas, historico, existeInicial,
          csv0, existe0, png0>>

----------------------------------------------------------------------------
(* Bounds of the model *)

\* Width of the significand (53 for a Python float).
MantBits == 4
\* Processes started (Spec) or coletar_dados calls made (SpecColetar).
MaxExecucoes == 2
\* Injected I/O failures and interrupts.
MaxFalhas == 1
\* Largest num_registros of a direct coletar_dados call.
MaxRegistros == 2
\* Seconds in a day of the model's clock (86400 for '%H:%M:%S').
SegundosPorDia == 12

(* Program constants *)

\* main: coletar_dados(taxa_base=taxa_cdi, num_registros=10)
NumRegistros == 10

----------------------------------------------------------------------------
(* Floating point *)

RECURSIVE Pow(_, _)
Pow(b, e) == IF e = 0 THEN 1 ELSE b * Pow(b, e - 1)

\* 1.0 and 0.5 in units.
Unit == Pow(2, MantBits)
Half == Unit \div 2

Abs(x) == IF x < 0 THEN -x ELSE x

\* Spacing of the representable values around magnitude q (in units).
RECURSIVE Ulp(_)
Ulp(q) == IF q < Unit THEN 1 ELSE 2 * Ulp(q \div 2)

\* The representable value nearest to n/d units (d > 0), ties to even.
RoundQ(n, d) ==
    LET a  == Abs(n)
        du == d * Ulp(a \div d)
        m  == a \div du
        r  == a % du
        mr == IF 2 * r > du \/ (2 * r = du /\ m % 2 = 1) THEN m + 1 ELSE m
    IN  IF n < 0 THEN -(mr * (du \div d)) ELSE mr * (du \div d)

FAdd(a, b) == RoundQ(a + b, 1)
FSub(a, b) == RoundQ(a - b, 1)

----------------------------------------------------------------------------
(* float(str): the text of a JSON string to a float *)

Digitos == {"0", "1", "2", "3", "4", "5", "6", "7", "8", "9"}

DigVal(c) ==
    CASE c = "0" -> 0 [] c = "1" -> 1 [] c = "2" -> 2 [] c = "3" -> 3
      [] c = "4" -> 4 [] c = "5" -> 5 [] c = "6" -> 6 [] c = "7" -> 7
      [] c = "8" -> 8 [] c = "9" -> 9

SoDigitos(s) == \A k \in 1..Len(s) : s[k] \in Digitos

RECURSIVE ValorDigitos(_)
ValorDigitos(s) ==
    IF s = <<>> THEN 0
    ELSE 10 * ValorDigitos(SubSeq(s, 1, Len(s) - 1)) + DigVal(s[Len(s)])

\* Python's None and a float value.
Nenhum   == [k |-> "None", v |-> 0]
Algum(x) == [k |-> "float", v |-> x]

\* float(s) for a text s of digits and '.': the decimal number rounded to the
\* nearest float; any other text raises ValueError (Nenhum stands for the
\* exception here).  Signs, exponents, blanks, inf and nan are outside the
\* alphabet of the model's texts.
ParseFloat(s) ==
    LET pts == {k \in 1..Len(s) : s[k] = "."}
    IN  IF pts = {}
        THEN IF Len(s) > 0 /\ SoDigitos(s)
             THEN Algum(RoundQ(ValorDigitos(s) * Unit, 1))
             ELSE Nenhum
        ELSE IF Cardinality(pts) > 1 THEN Nenhum
        ELSE LET p    == CHOOSE k \in pts : TRUE
                 int  == SubSeq(s, 1, p - 1)
                 frac == SubSeq(s, p + 1, Len(s))
             IN  IF SoDigitos(int) /\ SoDigitos(frac) /\ Len(int) + Len(frac) > 0
                 THEN Algum(RoundQ(ValorDigitos(int \o frac) * Unit,
                                   Pow(10, Len(frac))))
                 ELSE Nenhum

----------------------------------------------------------------------------
(* The rate fetcher *)

\* One record of the series: it has a 'valor' field (a JSON string) or not.
Registro(v)  == [temValor |-> TRUE, valor |-> v]
RegistroSemValor == [temValor |-> FALSE, valor |-> <<>>]

\* response.text: not JSON at all, a JSON value that is no list, or a JSON
\* list of records.
TextoNaoJson    == [json |-> FALSE, lista |-> FALSE, itens |-> <<>>]
TextoObjeto     == [json |-> TRUE, lista |-> FALSE, itens |-> <<>>]
TextoLista(its) == [json |-> TRUE, lista |-> TRUE, itens |-> its]

Textos ==
    { TextoNaoJson,
      TextoObjeto,
      TextoLista(<<>>),
      TextoLista(<<Registro(<<"9">>), Registro(<<"1", ".", "3">>)>>),
      TextoLista(<<Registro(<<"9">>), RegistroSemValor>>),
      TextoLista(<<Registro(<<"9">>), Registro(<<"a", "b">>)>>) }

\* What requests.get(url) can do: raise (no connection, timeout, ...) or
\* return a response.  A response with an error status carries an error page
\* or, all the same, a well-formed series.
RespostaExcecao  == [tipo |-> "excecao", status_code |-> 0, text |-> TextoNaoJson]
Resposta(sc, t)  == [tipo |-> "resposta", status_code |-> sc, text |-> t]
SemResposta      == [tipo |-> "nenhuma", status_code |-> 0, text |-> TextoNaoJson]
StatusDeErro     == {400, 404, 500, 599}
Respostas ==
    {RespostaExcecao}
      \cup {Resposta(200, t) : t \in Textos}
      \cup {Resposta(sc, t) : sc \in StatusDeErro,
             t \in {TextoNaoJson, TextoLista(<<Registro(<<"1", ".", "3">>)>>)}}

\* response.raise_for_status() raises requests.HTTPError for these.
RaiseForStatus_5xx(sc) == 500 <= sc /\ sc < 600
RaiseForStatus(sc) == 400 <= sc /\ sc < 600

\* float(json.loads(response.text)[-1]['valor']): the value, or Nenhum when
\* any step raises (JSONDecodeError, KeyError, IndexError, ValueError).
UltimoValor(t) ==
    IF ~t.json \/ ~t.lista \/ t.itens = <<>> THEN Nenhum
    ELSE LET ultimo == t.itens[Len(t.itens)]
         IN  IF ultimo.temValor THEN ParseFloat(ultimo.valor) ELSE Nenhum

MsgNaoEncontrado == "Dado nao encontrado, continuando."
MsgErro          == "Erro, parando a execucao."

\* The outcome of one call: it returns a value (a float or None) or raises,
\* and prints.
Retorna(v, msgs) == [levanta |-> FALSE, valor |-> v, saida |-> msgs]
Levanta(msgs)    == [levanta |-> TRUE, valor |-> Nenhum, saida |-> msgs]

extrair_taxa_cdi_engole(r) ==
    IF r.tipo = "excecao" THEN Retorna(Nenhum, <<MsgErro>>)
    ELSE IF RaiseForStatus(r.status_code) THEN Retorna(Nenhum, <<MsgNaoEncontrado>>)
    ELSE Retorna(UltimoValor(r.text), <<>>)

extrair_taxa_cdi(r) ==
    IF r.tipo = "excecao" THEN Levanta(<<MsgErro>>)
    ELSE IF RaiseForStatus(r.status_code) THEN Retorna(Nenhum, <<MsgNaoEncontrado>>)
    ELSE LET v == UltimoValor(r.text)
         IN  IF v = Nenhum THEN Levanta(<<>>) ELSE Retorna(v, <<>>)

----------------------------------------------------------------------------
(* The series file and the samples *)

\* 'data,hora,taxa\n' and f'{data},{hora},{taxa}\n'.  A float is written as
\* its shortest text that reads back as the same float, so a line keeps the
\* float itself.
Cabecalho      == [cab |-> TRUE, data |-> 0, hora |-> 0, taxa |-> 0]
Linha(d, h, t) == [cab |-> FALSE, data |-> d, hora |-> h, taxa |-> t]

\* strftime '%Y/%m/%d' and '%H:%M:%S' of the clock: the day and the second
\* of the day.
Data(t) == t \div SegundosPorDia
Hora(t) == t % SegundosPorDia

\* random.random(): the generator is deterministic, seeded from the system's
\* entropy when the module is imported; each call returns the next number of
\* its sequence, k / 2^MantBits with 0 <= k < 2^MantBits.  The sequence here
\* is a full-period one, so every k is drawn from some seed.
Seeds          == {0, Unit - 1}
Random(s)      == s
ProximoRng(s)  == (5 * s + 3) % Unit

\* taxa = taxa_base + (random() - 0.5)
Taxa_semMeio(base, r) == FAdd(base, r)
Taxa(base, r) == FAdd(base, FSub(r, Half))

\* if not os.path.exists(arquivo_csv)
PrecisaCabecalho_sempre(existe) == TRUE
PrecisaCabecalho(existe) == ~existe

\* for _ in range(num_registros)
LacoContinua_curto(k, n) == k < n - 1
LacoContinua(k, n) == k < n

\* open(mode='a') ... fp.write(line)
Anexa_trunca(arq, linha) == <<linha>>
Anexa(arq, linha) == Append(arq, linha)

----------------------------------------------------------------------------
(* The chart *)

\* pd.read_csv: the first line names the columns, the others are the rows.
read_csv_ultimos(arq) ==
    IF Len(arq) - 1 <= NumRegistros THEN Tail(arq)
    ELSE SubSeq(arq, Len(arq) - NumRegistros + 1, Len(arq))
read_csv(arq) == Tail(arq)

\* The file can be read and has the columns 'hora' and 'taxa'.
Legivel(existe, arq) == existe /\ arq # <<>> /\ arq[1] = Cabecalho

RECURSIVE FSoma(_)
FSoma(s) ==
    IF s = <<>> THEN 0
    ELSE FAdd(FSoma(SubSeq(s, 1, Len(s) - 1)), s[Len(s)].taxa)

NaHora(rows, h) == SelectSeq(rows, LAMBDA l : l.hora = h)

\* sns.lineplot(x=df['hora'], y=df['taxa']) with seaborn's defaults
\* (estimator='mean', sort=True): the rows are grouped by x, and the line has
\* one point per distinct x, at the mean of the group's y.
lineplot(rows) ==
    [h \in {rows[k].hora : k \in DOMAIN rows} |->
        RoundQ(FSoma(NaHora(rows, h)), Len(NaHora(rows, h)))]

SemImagem      == [existe |-> FALSE, pontos |-> [h \in {} |-> 0]]
Imagem(pontos) == [existe |-> TRUE, pontos |-> pontos]

----------------------------------------------------------------------------
(* The process *)

MsgUso       == "Uso: python analise.py <nome-do-grafico>"
MsgSemTaxa   == "Nao foi possivel obter a taxa CDI."
MsgColetados == "Dados coletados com sucesso."
MsgGrafico   == "Grafico salvo"
MsgConcluida == "Analise concluida com sucesso!"

Script == "analise.py"
NomesDeGrafico == {"cdi", "grafico"}
\* The arguments given on the command line.
Argumentos == {<<>>, <<"cdi">>, <<"cdi", "grafico">>}

\* The base rates of direct coletar_dados calls: float('1.3') and float('9').
Bases == {ParseFloat(<<"1", ".", "3">>).v, ParseFloat(<<"9">>).v}

Init ==
    /\ argv = <<Script>>
    /\ pc = "idle"
    /\ onde = "idle"
    /\ retorno = "idle"
    /\ status = "nenhum"
    /\ csv_existe \in BOOLEAN
    /\ csv = <<>>
    /\ png = [n \in NomesDeGrafico |-> SemImagem]
    /\ now = 0
    /\ rng \in Seeds
    /\ resposta = SemResposta
    /\ taxa_cdi = Nenhum
    /\ nome_grafico = ""
    /\ taxa_base = 0
    /\ num_registros = 0
    /\ i = 0
    /\ saida = <<>>
    /\ eventos = <<>>
    /\ execucoes = 0
    /\ falhas = 0
    /\ historico = <<>>
    /\ existeInicial = csv_existe
    /\ csv0 = csv
    /\ existe0 = csv_existe
    /\ png0 = png

\* The process ends here: by returning from main, by an exception that
\* reaches the top level, or by an interrupt.
Termina(como) ==
    /\ pc' = "idle"
    /\ onde' = pc
    /\ status' = como

\* What a new process (or call) starts from.
Comeca ==
    /\ execucoes < MaxExecucoes
    /\ execucoes' = execucoes + 1
    /\ status' = "executando"
    /\ resposta' = SemResposta
    /\ taxa_cdi' = Nenhum
    /\ nome_grafico' = ""
    /\ i' = 0
    /\ saida' = <<>>
    /\ eventos' = <<>>
    /\ csv0' = csv
    /\ existe0' = csv_existe
    /\ png0' = png
    /\ UNCHANGED <<csv_existe, csv, png, now, falhas, historico, existeInicial>>

\* python analise.py args...: the module is imported (the generator is
\* seeded) and main() is called.
Invocar ==
    /\ pc = "idle"
    /\ Comeca
    /\ \E args \in Argumentos : argv' = <<Script>> \o args
    /\ \E s \in Seeds : rng' = s
    /\ pc' = "main"
    /\ onde' = "main"
    /\ retorno' = "idle"
    /\ taxa_base' = 0
    /\ num_registros' = 0

\* main: if len(argv) < 2
FaltaArgumento_naoUm(a) == Len(a) # 2
FaltaArgumento(a) == Len(a) < 2

\* main: if taxa_cdi is None
SemValor_nunca(v) == FALSE
SemValor(v) == v = Nenhum

\* main: the argument check.
main_argumentos_semReturn ==
    /\ pc = "main"
    /\ IF FaltaArgumento(argv)
       THEN /\ saida' = Append(saida, MsgUso)
            /\ nome_grafico' = "grafico"
       ELSE /\ nome_grafico' = argv[2]
            /\ saida' = saida
    /\ pc' = "extrair"
    /\ UNCHANGED <<onde, status>>
    /\ UNCHANGED <<argv, retorno, csv_existe, csv, png, now, rng, resposta,
                   taxa_cdi, taxa_base, num_registros, i, eventos, execucoes,
                   falhas, historico, existeInicial, csv0, existe0, png0>>

main_argumentos ==
    /\ pc = "main"
    /\ IF FaltaArgumento(argv)
       THEN /\ saida' = Append(saida, MsgUso)
            /\ Termina("retornou")
            /\ UNCHANGED nome_grafico
       ELSE /\ nome_grafico' = argv[2]
            /\ pc' = "extrair"
            /\ UNCHANGED <<onde, status, saida>>
    /\ UNCHANGED <<argv, retorno, csv_existe, csv, png, now, rng, resposta,
                   taxa_cdi, taxa_base, num_registros, i, eventos, execucoes,
                   falhas, historico, existeInicial, csv0, existe0, png0>>

\* main: taxa_cdi = extrair_taxa_cdi(), the check for None, and the call of
\* coletar_dados(taxa_base=taxa_cdi, num_registros=10).
main_extrair ==
    /\ pc = "extrair"
    /\ \E r \in Respostas :
         LET o == extrair_taxa_cdi(r)
         IN  /\ resposta' = r
             /\ eventos' = Append(eventos, "extrair")
             /\ IF o.levanta
                THEN /\ saida' = saida \o o.saida
                     /\ Termina("excecao")
                     /\ UNCHANGED <<taxa_cdi, taxa_base, num_registros, retorno>>
                ELSE IF SemValor(o.valor)
                THEN /\ saida' = (saida \o o.saida) \o <<MsgSemTaxa>>
                     /\ taxa_cdi' = o.valor
                     /\ Termina("retornou")
                     /\ UNCHANGED <<taxa_base, num_registros, retorno>>
                ELSE /\ saida' = saida \o o.saida
                     /\ taxa_cdi' = o.valor
                     /\ taxa_base' = o.valor.v
                     /\ num_registros' = NumRegistros
                     /\ retorno' = "grafico"
                     /\ pc' = "coletar"
                     /\ UNCHANGED <<onde, status>>
    /\ UNCHANGED <<argv, csv_existe, csv, png, now, rng, nome_grafico, i,
                   execucoes, falhas, historico, existeInicial, csv0,
                   existe0, png0>>

\* coletar_dados, up to the loop: the file is created with its header when
\* it does not exist.  open(mode='w') can fail (nothing is created), and the
\* write can fail after the open created the file (it stays empty).
coletar_dados_inicio ==
    /\ pc = "coletar"
    /\ eventos' = Append(eventos, "coletar")
    /\ \/ /\ ~PrecisaCabecalho(csv_existe)
          /\ i' = 0
          /\ pc' = "laco"
          /\ UNCHANGED <<csv_existe, csv, onde, status, falhas>>
       \/ /\ PrecisaCabecalho(csv_existe)
          /\ csv_existe' = TRUE
          /\ csv' = <<Cabecalho>>
          /\ i' = 0
          /\ pc' = "laco"
          /\ UNCHANGED <<onde, status, falhas>>
       \/ /\ PrecisaCabecalho(csv_existe)
          /\ falhas < MaxFalhas
          /\ falhas' = falhas + 1
          /\ Termina("excecao")
          /\ UNCHANGED <<csv_existe, csv, i>>
       \/ /\ PrecisaCabecalho(csv_existe)
          /\ falhas < MaxFalhas
          /\ falhas' = falhas + 1
          /\ csv_existe' = TRUE
          /\ csv' = <<>>
          /\ Termina("excecao")
          /\ UNCHANGED i
    /\ UNCHANGED <<argv, retorno, png, now, rng, resposta, taxa_cdi,
                   nome_grafico, taxa_base, num_registros, saida, execucoes,
                   historico, existeInicial, csv0, existe0, png0>>

\* One iteration of the loop, up to the sleep: the sample is computed from
\* the clock and the generator and appended as one line (the file is opened,
\* written and closed).  open(mode='a') can fail: nothing is written.
coletar_dados_amostra ==
    /\ pc = "laco"
    /\ LacoContinua(i, num_registros)
    /\ rng' = ProximoRng(rng)
    /\ \/ /\ csv' = Anexa(csv, Linha(Data(now), Hora(now),
                                     Taxa(taxa_base, Random(rng))))
          /\ csv_existe' = TRUE
          /\ eventos' = Append(eventos, "amostra")
          /\ pc' = "pausa"
          /\ UNCHANGED <<onde, status, falhas>>
       \/ /\ falhas < MaxFalhas
          /\ falhas' = falhas + 1
          /\ Termina("excecao")
          /\ UNCHANGED <<csv_existe, csv, eventos>>
    /\ UNCHANGED <<argv, retorno, png, now, resposta, taxa_cdi, nome_grafico,
                   taxa_base, num_registros, i, saida, execucoes, historico,
                   existeInicial, csv0, existe0, png0>>

\* time.sleep(1), and the loop's next iteration.
coletar_dados_pausa ==
    /\ pc = "pausa"
    /\ now' = now + 1
    /\ i' = i + 1
    /\ pc' = "laco"
    /\ UNCHANGED <<argv, onde, retorno, status, csv_existe, csv, png, rng,
                   resposta, taxa_cdi, nome_grafico, taxa_base, num_registros,
                   saida, eventos, execucoes, falhas, historico,
                   existeInicial, csv0, existe0, png0>>

\* The loop is over: coletar_dados prints and returns to its caller.
coletar_dados_fim ==
    /\ pc = "laco"
    /\ ~LacoContinua(i, num_registros)
    /\ saida' = Append(saida, MsgColetados)
    /\ historico' = Append(historico, num_registros)
    /\ IF retorno = "idle"
       THEN Termina("retornou")
       ELSE /\ pc' = retorno
            /\ UNCHANGED <<onde, status>>
    /\ UNCHANGED <<argv, retorno, csv_existe, csv, png, now, rng, resposta,
                   taxa_cdi, nome_grafico, taxa_base, num_registros, i,
                   eventos, execucoes, falhas, existeInicial, csv0, existe0,
                   png0>>

\* gerar_grafico(nome_grafico) and main's last print.  read_csv raises on an
\* empty file, and df['hora'] raises when the first line is not the header.
gerar_grafico ==
    /\ pc = "grafico"
    /\ \/ /\ Legivel(csv_existe, csv)
          /\ png' = [png EXCEPT ![nome_grafico] = Imagem(lineplot(read_csv(csv)))]
          /\ saida' = (saida \o <<MsgGrafico>>) \o <<MsgConcluida>>
          /\ eventos' = (eventos \o <<"grafico">>) \o <<"sucesso">>
          /\ Termina("retornou")
       \/ /\ ~Legivel(csv_existe, csv)
          /\ eventos' = Append(eventos, "grafico")
          /\ Termina("excecao")
          /\ UNCHANGED <<png, saida>>
    /\ UNCHANGED <<argv, retorno, csv_existe, csv, now, rng, resposta,
                   taxa_cdi, nome_grafico, taxa_base, num_registros, i,
                   execucoes, falhas, historico, existeInicial, csv0, existe0,
                   png0>>

\* The process is interrupted (KeyboardInterrupt, kill) wherever it is.
Interromper ==
    /\ pc # "idle"
    /\ falhas < MaxFalhas
    /\ falhas' = falhas + 1
    /\ Termina("interrompido")
    /\ UNCHANGED <<argv, retorno, csv_existe, csv, png, now, rng, resposta,
                   taxa_cdi, nome_grafico, taxa_base, num_registros, i, saida,
                   eventos, execucoes, historico, existeInicial, csv0,
                   existe0, png0>>

\* A direct call coletar_dados(taxa_base, num_registros) of the imported
\* module.
ChamarColetar ==
    /\ pc = "idle"
    /\ Comeca
    /\ \E b \in Bases : taxa_base' = b
    /\ \E n \in 0..MaxRegistros : num_registros' = n
    /\ pc' = "coletar"
    /\ onde' = "coletar"
    /\ retorno' = "idle"
    /\ UNCHANGED <<argv, rng>>

Next ==
    \/ Invocar
    \/ main_argumentos
    \/ main_extrair
    \/ coletar_dados_inicio
    \/ coletar_dados_amostra
    \/ coletar_dados_pausa
    \/ coletar_dados_fim
    \/ gerar_grafico
    \/ Interromper

Spec == Init /\ [][Next]_vars

NextColetar ==
    \/ ChamarColetar
    \/ coletar_dados_inicio
    \/ coletar_dados_amostra
    \/ coletar_dados_pausa
    \/ coletar_dados_fim
    \/ Interromper

SpecColetar == Init /\ [][NextColetar]_vars

----------------------------------------------------------------------------
(* Vocabulary of the properties *)

EhPrefixo(s, t) == Len(s) <= Len(t) /\ SubSeq(t, 1, Len(s)) = s

RECURSIVE Soma(_)
Soma(s) == IF s = <<>> THEN 0 ELSE s[1] + Soma(Tail(s))

\* Where the process is, or where it was when it ended.
Posicao == IF pc = "idle" THEN onde ELSE pc

\* argv without the script's name.
NumArgumentos == Len(argv) - 1

\* The file system is as it was when the process started.
ArquivosIntactos == csv = csv0 /\ csv_existe = existe0 /\ png = png0

\* The lines this process added to the series file.
LinhasNovas == SubSeq(csv, Len(csv0) + 1, Len(csv))

\* The events of a complete run of main, in order.
Roteiro ==
    (<<"extrair", "coletar">> \o [k \in 1..NumRegistros |-> "amostra"])
        \o <<"grafico", "sucesso">>

Ocorrencias(s, e) == Cardinality({k \in DOMAIN s : s[k] = e})

StatusHTTPDeErro(r) ==
    r.tipo = "resposta" /\ r.status_code >= 400 /\ r.status_code <= 599

\* A text that is no decimal number.
NaoNumerico(v) == v = <<>> \/ \E k \in DOMAIN v : v[k] \notin Digitos \cup {"."}

\* A payload the fetcher cannot take a rate from.
Malformado(t) ==
    \/ ~t.json
    \/ ~t.lista
    \/ t.itens = <<>>
    \/ ~t.itens[Len(t.itens)].temValor
    \/ NaoNumerico(t.itens[Len(t.itens)].valor)

\* A failure of the fetch that is no HTTP error status.
FalhaNaoHTTP(r) ==
    \/ r.tipo = "excecao"
    \/ r.tipo = "resposta" /\ ~StatusHTTPDeErro(r) /\ Malformado(r.text)

\* The run of main went through to its last print.
Sucesso == status = "retornou" /\ Len(eventos) > 0 /\ eventos[Len(eventos)] = "sucesso"

----------------------------------------------------------------------------
(* Properties *)

\* C1: after coletar_dados calls n1, n2, ... that ran to their end on a file
\* that did not exist before the first one, the file holds the header as its
\* first line, no other header line, and n1 + n2 + ... sample lines.
TeoC1 ==
    (pc = "idle" /\ ~existeInicial /\ falhas = 0 /\ Len(historico) >= 1)
        => /\ csv_existe
           /\ Len(csv) = 1 + Soma(historico)
           /\ csv[1] = Cabecalho
           /\ \A k \in 2..Len(csv) : ~csv[k].cab

WitC1 ==
    /\ pc = "idle" /\ ~existeInicial /\ falhas = 0
    /\ Len(historico) = 2 /\ historico[1] > 0 /\ historico[2] > 0
    /\ Len(csv) = 1 + historico[1] + historico[2]

\* C2: when main has its argument and the fetcher returns None, the process
\* has returned normally right after the fetch, with the series file and the
\* images as they were and neither coletar_dados nor gerar_grafico called.
TeoC2 ==
    (NumArgumentos >= 1 /\ resposta.tipo # "nenhuma"
        /\ ~extrair_taxa_cdi(resposta).levanta
        /\ extrair_taxa_cdi(resposta).valor = Nenhum)
        => /\ pc = "idle"
           /\ status = "retornou"
           /\ eventos = <<"extrair">>
           /\ ArquivosIntactos

WitC2 ==
    /\ NumArgumentos >= 1 /\ StatusHTTPDeErro(resposta)
    /\ status = "retornou" /\ taxa_cdi = Nenhum
    /\ Len(csv) > 1 /\ png["cdi"].existe

\* C3: a process started with no argument never leaves the argument check:
\* it makes no request, leaves the series file and the images as they were,
\* and returns normally having printed the usage line only.
TeoC3 ==
    (status # "nenhum" /\ NumArgumentos = 0)
        => /\ Posicao = "main"
           /\ eventos = <<>>
           /\ resposta = SemResposta
           /\ ArquivosIntactos
           /\ (pc = "idle" /\ status # "interrompido")
                => (status = "retornou" /\ saida = <<MsgUso>>)

WitC3 ==
    /\ NumArgumentos = 0 /\ pc = "idle" /\ status = "retornou"
    /\ saida = <<MsgUso>> /\ Len(csv) > 1

\* C4: on a response with a 4xx or 5xx status the fetcher returns None and
\* raises nothing: the process prints the two messages and returns normally.
TeoC4 ==
    StatusHTTPDeErro(resposta)
        => /\ pc = "idle"
           /\ status = "retornou"
           /\ taxa_cdi = Nenhum
           /\ saida = <<MsgNaoEncontrado, MsgSemTaxa>>
           /\ ArquivosIntactos

WitC4 ==
    /\ StatusHTTPDeErro(resposta) /\ ~Malformado(resposta.text)
    /\ status = "retornou"

TeoC6 ==
    (status # "nenhum" /\ NumArgumentos >= 1)
        => /\ EhPrefixo(eventos, Roteiro)
           /\ Ocorrencias(LinhasNovas, Cabecalho) <= 1
           /\ Len(LinhasNovas) - Ocorrencias(LinhasNovas, Cabecalho)
                = Ocorrencias(eventos, "amostra")
           /\ Sucesso
                => /\ eventos = Roteiro
                   /\ nome_grafico = argv[2]
                   /\ taxa_base = taxa_cdi.v
                   /\ png[argv[2]].existe
                   /\ saida = <<MsgColetados, MsgGrafico, MsgConcluida>>

WitC6 ==
    /\ Sucesso /\ NumArgumentos >= 1 /\ eventos = Roteiro
    /\ Len(LinhasNovas) = NumRegistros /\ Len(csv0) > 1

\* C7 as claimed: a process whose number of arguments is not exactly one
\* never leaves the argument check.
CexC7 ==
    (status # "nenhum" /\ NumArgumentos # 1)
        => (Posicao = "main" /\ eventos = <<>>)

\* C7 as amended: a process with no argument never leaves the argument
\* check; a process with one argument or more is never turned away by it,
\* and goes on with the first argument as the chart's name.
TeoC7 ==
    status # "nenhum"
        => /\ NumArgumentos = 0 => (Posicao = "main" /\ eventos = <<>>)
           /\ NumArgumentos >= 1
                => /\ ~(pc = "idle" /\ onde = "main" /\ status = "retornou")
                   /\ Posicao # "main" => nome_grafico = argv[2]

WitC7 ==
    /\ NumArgumentos = 2 /\ Sucesso
    /\ png[argv[2]].existe /\ ~png[argv[3]].existe

\* C8 as claimed: every sample this process appended has its rate in the
\* half-open interval [taxa_base - 0.5, taxa_base + 0.5).
CexC8 ==
    status # "nenhum"
        => \A k \in DOMAIN LinhasNovas :
             ~LinhasNovas[k].cab
                => /\ taxa_base - Half <= LinhasNovas[k].taxa
                   /\ LinhasNovas[k].taxa < taxa_base + Half

\* C8 as amended: every sample this process appended has its rate in the
\* closed interval from taxa_base - 0.5 to taxa_base + 0.5, both computed in
\* floating point (the addition can round up to taxa_base + 0.5).
TeoC8 ==
    status # "nenhum"
        => \A k \in DOMAIN LinhasNovas :
             ~LinhasNovas[k].cab
                => /\ FSub(taxa_base, Half) <= LinhasNovas[k].taxa
                   /\ LinhasNovas[k].taxa <= FAdd(taxa_base, Half)

WitC8 ==
    /\ Posicao = "grafico" /\ i = NumRegistros
    /\ \E k \in DOMAIN LinhasNovas :
         ~LinhasNovas[k].cab /\ LinhasNovas[k].taxa = taxa_base + Half
    /\ \E k \in DOMAIN LinhasNovas :
         ~LinhasNovas[k].cab /\ LinhasNovas[k].taxa = taxa_base - Half

\* C9: at every point of a process the series file is what it was when the
\* process started, followed by what the process added: the header (only if
\* the file did not exist, and only once the loop is reached) and one whole
\* line per iteration whose append is done, i at the head of the loop and
\* i + 1 during the i-th pause; a process ended by an I/O failure or an
\* interrupt leaves exactly that.
TeoC9 ==
    status # "nenhum"
        => /\ EhPrefixo(csv0, csv)
           /\ Len(LinhasNovas) =
                (IF existe0 \/ Posicao \in {"main", "extrair", "coletar"}
                 THEN 0 ELSE 1)
                + (CASE Posicao \in {"main", "extrair", "coletar"} -> 0
                     [] Posicao = "laco" -> i
                     [] Posicao = "pausa" -> i + 1
                     [] OTHER -> num_registros)
           /\ \A k \in DOMAIN LinhasNovas :
                LinhasNovas[k].cab <=> (k = 1 /\ ~existe0)

WitC9 ==
    /\ pc = "idle" /\ status \in {"excecao", "interrompido"}
    /\ onde \in {"laco", "pausa"}
    /\ i > 0 /\ i < num_registros
    /\ Len(csv0) > 1 /\ Len(LinhasNovas) = i

\* C10 as claimed: after runs that all succeeded, on a file that did not
\* exist at first, the chart shows every data row of the file: one point per
\* row, at the row's rate.
CexC10 ==
    (Sucesso /\ ~existeInicial /\ falhas = 0)
        => LET rows == Tail(csv)
               pontos == png[nome_grafico].pontos
           IN  /\ Cardinality(DOMAIN pontos) = Len(rows)
               /\ \A k \in DOMAIN rows : pontos[rows[k].hora] = rows[k].taxa

\* C10 as amended: the chart of a run that succeeded is computed from every
\* data row of the file, those of earlier runs included (NumRegistros rows
\* per run that succeeded, on a file that did not exist at first): it has a
\* point at the hora of every row and nowhere else, and a row that is alone
\* at its hora is shown at its rate (rows that share a hora are shown as one
\* point).  The series file holds that run's rows after those it held
\* before, and the image of that name is the new chart.
TeoC10 ==
    Sucesso
        => LET rows == Tail(csv)
               pontos == png[nome_grafico].pontos
           IN  /\ png[nome_grafico].existe
               /\ DOMAIN pontos = {rows[k].hora : k \in DOMAIN rows}
               /\ \A k \in DOMAIN rows :
                    (\A j \in DOMAIN rows : rows[j].hora = rows[k].hora => j = k)
                        => pontos[rows[k].hora] = rows[k].taxa
               /\ EhPrefixo(csv0, csv)
               /\ Len(csv) = Len(csv0) + (IF existe0 THEN 0 ELSE 1) + NumRegistros
               /\ (~existeInicial /\ falhas = 0)
                    => Len(rows) = NumRegistros * Len(historico)

WitC10 ==
    /\ Sucesso /\ ~existeInicial /\ falhas = 0
    /\ Len(historico) = 2 /\ Len(Tail(csv)) = 2 * NumRegistros
    /\ png0[nome_grafico].existe /\ png0 # png
    /\ Cardinality(DOMAIN png[nome_grafico].pontos) < Len(Tail(csv))

====
